---------------------------- MODULE Spec2Model ----------------------------
(***************************************************************************)
(* A model of the daily-tech-brief pipeline: parser fetch, concurrent      *)
(* gather (get_articles), the Firestore-backed StateManager (filter_new,   *)
(* save_processed), curation (analyze_with_gemini) and main.               *)
(*                                                                         *)
(* Python values are modelled as follows.  An Article is a record with the *)
(* six keys of models.Article; links and titles are small naturals (link 0 *)
(* stands for the "#" sentinel), reason is a string and "None" stands for  *)
(* Python's None.  A call that can raise returns a record whose status is  *)
(* "ok" or "raise".                                                        *)
(***************************************************************************)
EXTENDS Integers, Sequences, FiniteSets, TLC

VARIABLES
    \* StateManager: self.db is a client (TRUE) or None (FALSE); the documents
    \* of the seen_articles collection, by id; the value datetime.now() gives.
    db, collection, clock,
    \* SpecStore: the last StateManager call with its argument and outcome, and
    \* the links of every save_processed call that returned.
    storeCall, savedLinks,
    \* SpecBulk: the StateManager call in progress on a long batch, with its
    \* argument, its locals and the place it has reached.
    frame,
    \* SpecCurate: the arguments of one analyze_with_gemini call with the
    \* response of the ranking service, and the outcome of the call.
    curIn, curOut,
    \* SpecParser: the source fetched by one parser call (what the network and
    \* the feed library give), and the outcome of the call.
    parseIn, parseOut,
    \* main: the place main has reached, the number of the run, the
    \* credentials of the environment (EMAIL_USER/EMAIL_PASS, GEMINI_KEY).
    pc, run, creds,
    \* get_articles: the sources of the feeds argument, the future of every
    \* source, the raw_items aggregate, the sources logged as having raised,
    \* and how the call ended.
    feeds, tasks, raw_items, logged, gatherStatus,
    \* The locals of main.
    raw_platform, raw_blogs, new_platform, new_blogs, final_platform,
    final_blogs,
    \* The send_email and save_processed calls of the run, and the links that
    \* filter_new returned as new in the run before.
    emailed, saved, prevNew,
    \* The links passed to send_email in earlier runs that had the store and
    \* whose save_processed returned; the number of analyze_with_gemini calls
    \* of the run.
    delivered, curated

storeVars == <<db, collection, clock, storeCall, savedLinks, frame>>
curVars == <<curIn, curOut>>
parseVars == <<parseIn, parseOut>>
gatherVars == <<feeds, tasks, raw_items, logged, gatherStatus>>
mainVars == <<pc, run, creds, raw_platform, raw_blogs, new_platform, new_blogs,
              final_platform, final_blogs, emailed, saved, prevNew,
              delivered, curated>>
vars == <<db, collection, clock, storeCall, savedLinks, frame, curIn, curOut,
          parseIn, parseOut, pc, run, creds, feeds, tasks, raw_items, logged,
          gatherStatus, raw_platform, raw_blogs, new_platform, new_blogs,
          final_platform, final_blogs, emailed, saved, prevNew,
          delivered, curated>>

\* ------------------------------------------------------------------ bounds
\* Links of the small article universe are 0..MaxLink.
MaxLink == 1
\* Longest batch handed to one StateManager call in SpecStore.
MaxBatch == 2
\* The StateManager clock (datetime.now()) runs up to MaxClock.
MaxClock == 2
\* Longest list of selections in a response of the ranking service.
MaxSel == 2
\* Longest short article list handed to analyze_with_gemini in SpecCurate.
MaxArts == 2
\* Most entries of a feed in SpecParser.
MaxEntries == 2
\* Most lines of a changelog in SpecParser.
MaxLines == 3
\* Runs of main in Spec.
MaxRuns == 2

\* ------------------------------------------------------- program constants
\* chunk_size of filter_new.
ChunkSize == 30
\* Writes after which save_processed commits the batch.
BatchCap == 400
\* The "#" link given to a feed entry that has no link.
SentinelLink == 0

\* ---------------------------------------------------------------- helpers
Min(a, b) == IF a < b THEN a ELSE b

Range(s) == {s[i] : i \in DOMAIN s}

\* Python's s[:n] for n >= 0.
Prefix(s, n) == SubSeq(s, 1, Min(n, Len(s)))

\* Sequences over S of length at most n.
SeqsUpTo(S, n) == UNION {[1..k -> S] : k \in 0..n}

\* ---------------------------------------------------------------- Article
Links == 0..MaxLink
Titles == {1}

Article(source, title, link) ==
    [source |-> source, title |-> title, link |-> link,
     summary |-> title, full_text |-> title, reason |-> "None"]

SmallArticles == {Article("feed", t, l) : t \in Titles, l \in Links}

LinksOf(articles) == {articles[i].link : i \in DOMAIN articles}

\* ----------------------------------------------------------- StateManager
\* get_id: the md5 hex digest of the link, a value of its own kind that is
\* different for different links.
get_id(url) == <<"md5", url>>

\* The ids of the documents of the collection that exist.
StoredIds(coll) == DOMAIN coll

\* db.get_all(chunk): the ids of the snapshots that exist.
get_all(coll, chunk) == {chunk[i] : i \in DOMAIN chunk} \cap StoredIds(coll)

\* doc_refs[i : i + chunk_size], one key too long.
ChunkAtTooLong(doc_refs, i) ==
    SubSeq(doc_refs, i + 1, Min(i + ChunkSize + 1, Len(doc_refs)))

\* chunk = doc_refs[i : i + chunk_size]
ChunkAt(doc_refs, i) ==
    SubSeq(doc_refs, i + 1, Min(i + ChunkSize, Len(doc_refs)))

\* The loop of filter_new over the chunks of doc_refs: i is the 0-based
\* offset of the next chunk, trip the number of the round trip, failTrip the
\* round trip on which the backend raises (0: never).
RECURSIVE FilterChunks(_, _, _, _, _, _)
FilterChunks(coll, doc_refs, i, seen_ids, trips, failTrip) ==
    IF i >= Len(doc_refs)
    THEN [status |-> "ok", seen_ids |-> seen_ids, trips |-> trips]
    ELSE LET chunk == ChunkAt(doc_refs, i)
         IN IF Len(trips) + 1 = failTrip
            THEN [status |-> "raise", seen_ids |-> seen_ids,
                  trips |-> Append(trips, Len(chunk))]
            ELSE FilterChunks(coll, doc_refs, i + ChunkSize,
                              seen_ids \cup get_all(coll, chunk),
                              Append(trips, Len(chunk)), failTrip)

\* KeepNew with the membership test inverted.
KeepNewInverted(articles, seen_ids) ==
    SelectSeq(articles, LAMBDA a : get_id(a.link) \in seen_ids)

\* The filter loop keeping only the first article of every new link.
KeepNewDedup(articles, seen_ids) ==
    LET P == {i \in DOMAIN articles :
                /\ get_id(articles[i].link) \notin seen_ids
                /\ \A k \in 1..(i - 1) : articles[k].link # articles[i].link}
    IN [j \in 1..Cardinality(P) |->
          articles[CHOOSE i \in P : Cardinality({k \in P : k <= i}) = j]]

\* The articles whose id is not in seen_ids, in input order.
KeepNew(articles, seen_ids) ==
    SelectSeq(articles, LAMBDA a : get_id(a.link) \notin seen_ids)

\* filter_new without the test of self.db: None.get_all raises.
filter_new_no_db_guard(articles, failTrip) ==
    IF articles = <<>>
    THEN [status |-> "ok", val |-> articles, trips |-> <<>>]
    ELSE IF ~db
    THEN [status |-> "raise", val |-> <<>>, trips |-> <<>>]
    ELSE LET doc_refs == [i \in DOMAIN articles |-> get_id(articles[i].link)]
             r == FilterChunks(collection, doc_refs, 0, {}, <<>>, failTrip)
         IN IF r.status = "raise"
            THEN [status |-> "raise", val |-> <<>>, trips |-> r.trips]
            ELSE [status |-> "ok", val |-> KeepNew(articles, r.seen_ids),
                  trips |-> r.trips]

\* StateManager.filter_new on self (db, collection).  trips is
\* the size of the chunk of every get_all round trip made.
filter_new(articles, failTrip) ==
    IF ~db \/ articles = <<>>
    THEN [status |-> "ok", val |-> articles, trips |-> <<>>]
    ELSE LET doc_refs == [i \in DOMAIN articles |-> get_id(articles[i].link)]
             r == FilterChunks(collection, doc_refs, 0, {}, <<>>, failTrip)
         IN IF r.status = "raise"
            THEN [status |-> "raise", val |-> <<>>, trips |-> r.trips]
            ELSE [status |-> "ok", val |-> KeepNew(articles, r.seen_ids),
                  trips |-> r.trips]

\* The document batch.set writes for article a at time now.
SeenRecord(a, now) == [title |-> a.title, url |-> a.link, processed_at |-> now]

\* batch.commit() of the writes of batch, applied in order: a later write to
\* the same document replaces the earlier one, so every document written
\* ends as its last write.
ApplyBatch(coll, batch) ==
    LET ids == {batch[j].id : j \in DOMAIN batch}
        last(id) == LET at == {j \in DOMAIN batch : batch[j].id = id}
                    IN CHOOSE j \in at : \A j2 \in at : j2 <= j
    IN [id \in DOMAIN coll \cup ids |->
          IF id \in ids
          THEN LET w == batch[last(id)]
               IN [title |-> w.title, url |-> w.url,
                   processed_at |-> w.processed_at]
          ELSE coll[id]]

\* count >= 400 with > for >=.
BatchFullOffByOne(count) == count > BatchCap

\* count >= 400: the batch is committed and a new one started.
BatchFull(count) == count >= BatchCap

\* The loop of save_processed from article k on: batch holds the writes not
\* yet committed (count = Len(batch)), commits the sizes of the commits made,
\* failCommit the commit on which the backend raises (0: never).
RECURSIVE SaveLoop(_, _, _, _, _, _, _)
SaveLoop(coll, articles, k, batch, commits, now, failCommit) ==
    IF k > Len(articles)
    THEN IF Len(batch) > 0
         THEN IF Len(commits) + 1 = failCommit
              THEN [status |-> "raise", coll |-> coll, commits |-> commits,
                    writes |-> Len(articles)]
              ELSE [status |-> "ok", coll |-> ApplyBatch(coll, batch),
                    commits |-> Append(commits, Len(batch)),
                    writes |-> Len(articles)]
         ELSE [status |-> "ok", coll |-> coll, commits |-> commits,
               writes |-> Len(articles)]
    ELSE LET a == articles[k]
             w == [id |-> get_id(a.link), title |-> a.title, url |-> a.link,
                   processed_at |-> now]
             batch1 == Append(batch, w)
         IN IF BatchFull(Len(batch1))
            THEN IF Len(commits) + 1 = failCommit
                 THEN [status |-> "raise", coll |-> coll, commits |-> commits,
                       writes |-> k]
                 ELSE SaveLoop(ApplyBatch(coll, batch1), articles, k + 1, <<>>,
                               Append(commits, Len(batch1)), now, failCommit)
            ELSE SaveLoop(coll, articles, k + 1, batch1, commits, now,
                          failCommit)

\* StateManager.save_processed on self (db, collection): the collection it
\* leaves, the size of every commit it made and the number of batch.set calls.
save_processed(articles, now, failCommit) ==
    IF ~db \/ articles = <<>>
    THEN [status |-> "ok", coll |-> collection, commits |-> <<>>, writes |-> 0]
    ELSE SaveLoop(collection, articles, 1, <<>>, <<>>, now, failCommit)

\* ---------------------------------------------------------------- LLMService
\* A line of the response text: a fence line ("```" or "```json"), or a
\* line that holds a JSON document (json is its parsed value) and may end
\* with a closing fence written on the same line.
FenceOpen == [starts |-> TRUE, ends |-> FALSE, json |-> [type |-> "none"]]
FenceClose == [starts |-> TRUE, ends |-> TRUE, json |-> [type |-> "none"]]
JsonLine(v) == [starts |-> FALSE, ends |-> FALSE, json |-> v]
JsonLineFenced(v) == [starts |-> FALSE, ends |-> TRUE, json |-> v]

\* json.loads of the lines left: one line holding exactly a JSON document.
json_loads(lines) ==
    IF /\ Len(lines) = 1
       /\ ~lines[1].starts
       /\ ~lines[1].ends
       /\ lines[1].json.type \notin {"none", "invalid"}
    THEN [exc |-> "none", val |-> lines[1].json]
    ELSE [exc |-> "JSONDecodeError", val |-> [type |-> "none"]]

\* _parse_json_response: text is the stripped response as a sequence of lines.
parse_json_response(text) ==
    IF text # <<>> /\ text[1].starts
    THEN IF Len(text) = 1
         THEN [exc |-> "IndexError", val |-> [type |-> "none"]]
         ELSE LET cleaned == Tail(text)
              IN IF cleaned[Len(cleaned)].ends
                 THEN json_loads(IF Len(cleaned) = 1 THEN cleaned
                                 ELSE SubSeq(cleaned, 1, Len(cleaned) - 1))
                 ELSE json_loads(cleaned)
    ELSE json_loads(text)

\* IdCompare with <= for <.
IdCompareOffByOne(sel, n) ==
    IF sel.idkind = "str" THEN "TypeError"
    ELSE IF sel.id <= n THEN "less" ELSE "not_less"

\* sel["id"] < len(candidates): a str id cannot be compared with an int; a
\* float id n + 0.5 (idkind "float", id n) compares like n.
IdCompare(sel, n) ==
    IF sel.idkind = "str" THEN "TypeError"
    ELSE IF sel.id < n THEN "less" ELSE "not_less"

\* candidates[sel["id"]] on a list of n elements: the 0-based position read,
\* Python counting a negative index from the end.
IndexInto(sel, n) ==
    IF sel.idkind # "int" THEN [exc |-> "TypeError", pos |-> 0]
    ELSE IF sel.id >= n THEN [exc |-> "IndexError", pos |-> 0]
    ELSE IF sel.id >= 0 THEN [exc |-> "none", pos |-> sel.id]
    ELSE IF sel.id >= -n THEN [exc |-> "none", pos |-> sel.id + n]
    ELSE [exc |-> "IndexError", pos |-> 0]

\* sel.get("analysis", "No analysis provided.")
ReasonOf(sel) ==
    IF sel.hasanalysis THEN sel.analysis ELSE "No analysis provided."

\* The loop over selections from entry k on.  n is len(candidates); reasons
\* maps the 0-based positions of the candidates whose "reason" was assigned
\* to the value last assigned; picked holds the positions appended to
\* final_list; indexed holds every id that was used as an index.
RECURSIVE SelectLoop(_, _, _, _, _, _)
SelectLoop(sels, k, n, reasons, picked, indexed) ==
    IF k > Len(sels)
    THEN [exc |-> "none", reasons |-> reasons, picked |-> picked,
          indexed |-> indexed]
    ELSE LET sel == sels[k]
         IN IF ~(sel.isdict /\ sel.hasid)
            THEN SelectLoop(sels, k + 1, n, reasons, picked, indexed)
            ELSE LET c == IdCompare(sel, n)
                 IN IF c = "TypeError"
                    THEN [exc |-> "TypeError", reasons |-> reasons,
                          picked |-> picked, indexed |-> indexed]
                    ELSE IF c = "not_less"
                    THEN SelectLoop(sels, k + 1, n, reasons, picked, indexed)
                    ELSE LET ix == IndexInto(sel, n)
                             used == Append(indexed,
                                            [idkind |-> sel.idkind, id |-> sel.id])
                         IN IF ix.exc # "none"
                            THEN [exc |-> ix.exc, reasons |-> reasons,
                                  picked |-> picked, indexed |-> used]
                            ELSE SelectLoop(
                                   sels, k + 1, n,
                                   [p \in DOMAIN reasons \cup {ix.pos} |->
                                      IF p = ix.pos THEN ReasonOf(sel)
                                      ELSE reasons[p]],
                                   Append(picked, ix.pos), used)

\* for sel in selections: the value json.loads gave is iterated.  A dict
\* yields its keys and a str its characters (no entry is a dict); a number
\* or null is not iterable.
IterateSelections(v) ==
    IF v.type = "list" THEN [exc |-> "none", sels |-> v.items]
    ELSE IF v.type \in {"dict", "string"}
    THEN [exc |-> "none", sels |-> [i \in 1..v.size |-> [isdict |-> FALSE]]]
    ELSE [exc |-> "TypeError", sels |-> <<>>]

\* The try block of analyze_with_gemini: the exception that leaves it, if any.
TryBlock(n, response) ==
    LET none == [exc |-> "none", reasons |-> <<>>, picked |-> <<>>,
                 indexed |-> <<>>]
    IN IF response.kind = "api_error"
       THEN [none EXCEPT !.exc = "APIError"]
       ELSE LET parsed == parse_json_response(response.text)
            IN IF parsed.exc # "none"
               THEN [none EXCEPT !.exc = parsed.exc]
               ELSE LET it == IterateSelections(parsed.val)
                    IN IF it.exc # "none"
                       THEN [none EXCEPT !.exc = it.exc]
                       ELSE SelectLoop(it.sels, 1, n, <<>>, <<>>, <<>>)

\* The except clauses of analyze_with_gemini, with only the first one.
HandlerOnlyJson(exc) ==
    IF exc \in {"JSONDecodeError", "ValueError"} THEN "parse_error"
    ELSE "uncaught"

\* The except clauses of analyze_with_gemini: the error logged for exc.
Handler(exc) ==
    IF exc \in {"JSONDecodeError", "ValueError"} THEN "parse_error"
    ELSE "api_error"

\* The candidate window.
CandidateWindow == 500

\* LLMService.analyze_with_gemini.  client is FALSE when self.client is None.
\* val is the list returned; reasons, the "reason" assigned in place to the
\* candidates (which are the caller's article dicts), by 0-based position.
analyze_with_gemini(client, articles, limit, response) ==
    LET none == [status |-> "ok", val |-> <<>>, log |-> "none",
                 reasons |-> <<>>, indexed |-> <<>>, window |-> 0]
    IN IF ~client
       THEN [none EXCEPT !.log = "no_client"]
       ELSE LET candidates == Prefix(articles, CandidateWindow)
                n == Len(candidates)
                t == TryBlock(n, response)
            IN IF t.exc = "none"
               THEN [status |-> "ok",
                     val |-> [j \in DOMAIN t.picked |->
                                [candidates[t.picked[j] + 1] EXCEPT
                                   !.reason = t.reasons[t.picked[j]]]],
                     log |-> "none", reasons |-> t.reasons,
                     indexed |-> t.indexed, window |-> n]
               ELSE IF Handler(t.exc) = "uncaught"
               THEN [status |-> "raise", val |-> <<>>, log |-> "none",
                     reasons |-> t.reasons, indexed |-> t.indexed,
                     window |-> n]
               ELSE [status |-> "ok", val |-> <<>>, log |-> Handler(t.exc),
                     reasons |-> t.reasons, indexed |-> t.indexed,
                     window |-> n]

\* ------------------------------------------------------------------ parsers
\* What requests.get and raise_for_status give: "ok", "RequestException"
\* (network error, non-2xx status) or "Exception" (any other exception).
NetOutcomes == {"ok", "RequestException", "Exception"}

\* A str is a sequence of tokens: "w" (a character that is not markup or
\* white space), " ", "\n", "<", ">" and the entities "&amp;" and "&#62;".
IsSpace(t) == t \in {" ", "\n"}

\* The position of the ">" that ends the shortest match of "<.*?>" starting
\* at the "<" at the head of s, or 0 if there is none: "." does not match a
\* newline.
RECURSIVE TagEnd(_, _)
TagEnd(s, j) ==
    IF j > Len(s) THEN 0
    ELSE IF s[j] = ">" THEN j
    ELSE IF s[j] = "\n" THEN 0
    ELSE TagEnd(s, j + 1)

\* re.sub(re.compile("<.*?>"), "", raw_html)
RECURSIVE re_sub_tags(_)
re_sub_tags(s) ==
    IF s = <<>> THEN <<>>
    ELSE IF Head(s) = "<" /\ TagEnd(s, 2) # 0
    THEN re_sub_tags(SubSeq(s, TagEnd(s, 2) + 1, Len(s)))
    ELSE <<Head(s)>> \o re_sub_tags(Tail(s))

\* s without the white space at its head.
RECURSIVE LStrip(_)
LStrip(s) ==
    IF s # <<>> /\ IsSpace(Head(s)) THEN LStrip(Tail(s)) ELSE s

\* The words of s, one " " between two of them; s does not begin with white
\* space.
RECURSIVE JoinWords(_)
JoinWords(s) ==
    IF s = <<>> THEN <<>>
    ELSE IF IsSpace(Head(s))
    THEN IF LStrip(s) = <<>> THEN <<>>
         ELSE <<" ">> \o JoinWords(LStrip(s))
    ELSE <<Head(s)>> \o JoinWords(Tail(s))

\* " ".join(text.split())
split_join(text) == JoinWords(LStrip(text))

\* RSSParser._clean_html (and clean_html of daily_brief.py) on the summary of
\* a feed entry: None or "" (kind "absent", or an empty text) gives ""; a
\* summary that is not a str makes re.sub raise TypeError; a str has its
\* tags removed and its white space normalized.
clean_html(raw_summary) ==
    IF raw_summary.kind = "notstr" THEN [exc |-> "TypeError", val |-> <<>>]
    ELSE IF raw_summary.kind = "absent" \/ raw_summary.text = <<>>
    THEN [exc |-> "none", val |-> <<>>]
    ELSE [exc |-> "none", val |-> split_join(re_sub_tags(raw_summary.text))]

\* The article RSSParser.fetch builds from one entry: a missing title is ""
\* (0), a missing link is "#".
RssArticle(source, entry, cleaned) ==
    [source |-> source,
     title |-> IF entry.hastitle THEN entry.title ELSE 0,
     link |-> IF entry.haslink THEN entry.link ELSE SentinelLink,
     summary |-> [text |-> cleaned, ellipsis |-> TRUE],
     full_text |-> <<IF entry.hastitle THEN entry.title ELSE 0, cleaned>>,
     reason |-> "None"]

\* The loop of RSSParser.fetch over feed.entries from entry k on.
RECURSIVE RssLoop(_, _, _, _)
RssLoop(source, entries, k, items) ==
    IF k > Len(entries) THEN [exc |-> "none", items |-> items]
    ELSE LET c == clean_html(entries[k].summary)
         IN IF c.exc # "none" THEN [exc |-> c.exc, items |-> items]
            ELSE RssLoop(source, entries, k + 1,
                         Append(items, RssArticle(source, entries[k], c.val)))

\* RSSParser.fetch (and fetch_feed of daily_brief.py).  feed.net is the
\* outcome of the GET, feed.parse of feedparser.parse, feed.entries the
\* entries it gives.  log counts the error lines written.
rss_fetch(source, feed) ==
    IF feed.net = "RequestException"
    THEN [status |-> "ok", val |-> <<>>, log |-> 1]
    ELSE IF feed.net = "Exception" \/ feed.parse = "Exception"
    THEN [status |-> "ok", val |-> <<>>, log |-> 1]
    ELSE LET r == RssLoop(source, feed.entries, 1, <<>>)
         IN IF r.exc # "none"
            THEN [status |-> "ok", val |-> r.items, log |-> 1]
            ELSE [status |-> "ok", val |-> r.items, log |-> 0]

\* A line of the changelog: kind says what follows its leading whitespace
\* ("h2": the text "## " and a header text; "text": other text; "blank":
\* nothing), indent whether it has leading whitespace.
\* line.strip(): the line without its leading and trailing whitespace.
strip(line) == [line EXCEPT !.indent = FALSE]

\* s.startswith("## ")
startswith_h2(s) == s.kind = "h2" /\ ~s.indent

\* line.strip().startswith("## ")
IsHeader(line) == startswith_h2(strip(line))

\* "\n".join(current_body).strip(): the body lines without the blank lines
\* at both ends.
RECURSIVE StripBlank(_)
StripBlank(body) ==
    IF body = <<>> THEN <<>>
    ELSE IF Head(body).kind = "blank" THEN StripBlank(Tail(body))
    ELSE IF body[Len(body)].kind = "blank"
    THEN StripBlank(SubSeq(body, 1, Len(body) - 1))
    ELSE body

\* len(summary): the characters of the lines and the newlines between them.
RECURSIVE TextLen(_)
TextLen(body) ==
    IF body = <<>> THEN 0
    ELSE Head(body).len + (IF Len(body) > 1 THEN 1 ELSE 0) + TextLen(Tail(body))

\* The longest summary kept whole.
SummaryCap == 250

\* make_anchor: the anchor of a header text, a value of its own kind.
make_anchor(text) == <<"anchor", text>>

\* The article GitHubChangelogParser.fetch builds for one section.
ChangelogArticle(source, url, current_version, current_body) ==
    LET summary == StripBlank(current_body)
    IN [source |-> source,
        title |-> <<"Changelog", current_version>>,
        link |-> <<url, "#", make_anchor(current_version)>>,
        summary |-> [text |-> summary, ellipsis |-> TextLen(summary) > SummaryCap],
        full_text |-> <<current_version, summary>>,
        reason |-> "None"]

\* The loop of GitHubChangelogParser.fetch over the lines from line k on.
\* current_version is 0 while no header has been read (None).
RECURSIVE ChangelogLoop(_, _, _, _, _, _, _)
ChangelogLoop(source, url, lines, k, current_version, current_body, items) ==
    IF k > Len(lines)
    THEN IF current_version # 0
         THEN Append(items, ChangelogArticle(source, url, current_version,
                                             current_body))
         ELSE items
    ELSE IF IsHeader(lines[k])
    THEN ChangelogLoop(source, url, lines, k + 1, lines[k].version, <<>>,
                       IF current_version # 0
                       THEN Append(items,
                                   ChangelogArticle(source, url, current_version,
                                                    current_body))
                       ELSE items)
    ELSE IF current_version # 0
    THEN ChangelogLoop(source, url, lines, k + 1, current_version,
                       Append(current_body, lines[k]), items)
    ELSE ChangelogLoop(source, url, lines, k + 1, current_version,
                       current_body, items)

\* The most sections GitHubChangelogParser.fetch returns.
MaxSections == 5

\* GitHubChangelogParser.fetch.  doc.net is the outcome of the GET,
\* doc.lines the lines of resp.text.
changelog_fetch(source, url, doc) ==
    IF doc.net = "RequestException"
    THEN [status |-> "ok", val |-> <<>>, log |-> 1]
    ELSE IF doc.net = "Exception"
    THEN [status |-> "ok", val |-> <<>>, log |-> 1]
    ELSE [status |-> "ok",
          val |-> Prefix(ChangelogLoop(source, url, doc.lines, 1, 0, <<>>, <<>>),
                         MaxSections),
          log |-> 0]

\* ------------------------------------------------------------ get_articles
Sources == {"s1", "s2", "s3"}

\* A feed entry with a title, a str summary and link l ("#": no link).
EntryWithLink(l) ==
    [hastitle |-> TRUE, title |-> 1, haslink |-> l # SentinelLink, link |-> l,
     summary |-> [kind |-> "str", text |-> <<"w">>]]

\* What a source serves when a task of get_articles fetches it: a network
\* error, or a feed of one entry, or of two.
GatherDocs ==
    {[variant |-> "rss", net |-> "RequestException", parse |-> "ok",
      entries |-> <<>>]}
    \cup {[variant |-> "rss", net |-> "ok", parse |-> "ok",
           entries |-> <<EntryWithLink(l)>>] : l \in Links}
    \cup {[variant |-> "rss", net |-> "ok", parse |-> "ok",
           entries |-> <<EntryWithLink(MaxLink), EntryWithLink(SentinelLink)>>]}

\* How the task submitted for source s can end: the callable returns what
\* fetch_feed returns, or it raises.
TaskOutcomes(s) ==
    {[raised |-> TRUE, items |-> <<>>]}
    \cup {[raised |-> FALSE, items |-> rss_fetch(s, d).val] : d \in GatherDocs}

\* The body of the as_completed loop without the try/except.
CollectFutureNoCatch(raw, log, s, future) ==
    IF future.raised
    THEN [status |-> "raise", raw |-> raw, logged |-> log]
    ELSE [status |-> "ok", raw |-> raw \o future.items, logged |-> log]

\* The body of the as_completed loop for the completed future of source s:
\* future.result() is added to raw_items, or its exception is logged.
CollectFuture(raw, log, s, future) ==
    IF future.raised
    THEN [status |-> "ok", raw |-> raw, logged |-> [log EXCEPT ![s] = @ + 1]]
    ELSE [status |-> "ok", raw |-> raw \o future.items, logged |-> log]

\* executor.submit(fetch_feed, source, url) for every source of fs.
Submitted(fs) ==
    /\ feeds' = fs
    /\ tasks' = [s \in fs |-> [state |-> "running", raised |-> FALSE,
                               items |-> <<>>]]
    /\ raw_items' = <<>>
    /\ logged' = [s \in fs |-> 0]
    /\ gatherStatus' = "running"

\* TaskFinish where the worker adds its articles to raw_items itself.
TaskFinishAppends(s) ==
    /\ gatherStatus = "running"
    /\ tasks[s].state = "running"
    /\ \E o \in TaskOutcomes(s) :
         /\ tasks' = [tasks EXCEPT ![s] = [state |-> "done",
                                           raised |-> o.raised,
                                           items |-> o.items]]
         /\ raw_items' = raw_items \o o.items
    /\ UNCHANGED <<feeds, logged, gatherStatus>>
    /\ UNCHANGED <<storeVars, curVars, parseVars, mainVars>>

\* A worker of the pool finishes the task of source s.
TaskFinish(s) ==
    /\ gatherStatus = "running"
    /\ tasks[s].state = "running"
    /\ \E o \in TaskOutcomes(s) :
         tasks' = [tasks EXCEPT ![s] = [state |-> "done", raised |-> o.raised,
                                        items |-> o.items]]
    /\ UNCHANGED <<feeds, raw_items, logged, gatherStatus>>
    /\ UNCHANGED <<storeVars, curVars, parseVars, mainVars>>

\* as_completed yields the completed future of source s to the thread that
\* called get_articles.
Collect(s) ==
    /\ gatherStatus = "running"
    /\ tasks[s].state = "done"
    /\ LET r == CollectFuture(raw_items, logged, s, tasks[s])
       IN /\ raw_items' = r.raw
          /\ logged' = r.logged
          /\ gatherStatus' = IF r.status = "raise" THEN "raised" ELSE "running"
    /\ tasks' = [tasks EXCEPT ![s].state = "collected"]
    /\ UNCHANGED feeds
    /\ UNCHANGED <<storeVars, curVars, parseVars, mainVars>>

\* GatherReturn as soon as one future has been yielded.
GatherReturnEarly ==
    /\ gatherStatus = "running"
    /\ \E s \in feeds : tasks[s].state = "collected"
    /\ gatherStatus' = "returned"
    /\ UNCHANGED <<feeds, tasks, raw_items, logged>>
    /\ UNCHANGED <<storeVars, curVars, parseVars, mainVars>>

\* Every future has been yielded: the with block ends and get_articles
\* returns raw_items.
GatherReturn ==
    /\ gatherStatus = "running"
    /\ \A s \in feeds : tasks[s].state = "collected"
    /\ gatherStatus' = "returned"
    /\ UNCHANGED <<feeds, tasks, raw_items, logged>>
    /\ UNCHANGED <<storeVars, curVars, parseVars, mainVars>>

GatherIdle ==
    /\ feeds = {}
    /\ tasks = <<>>
    /\ raw_items = <<>>
    /\ logged = <<>>
    /\ gatherStatus = "idle"

\* --------------------------------------------------------------------- main
\* FEEDS of the configuration: the sources of the two groups.
platform_feeds == {"s1", "s2"}
blog_feeds == {"s3"}

\* The limit main passes to analyze_with_gemini.
MainLimit == 15

\* What the ranking service answers in a run of main.
MainResponses ==
    {[kind |-> "api_error", text |-> <<>>]}
    \cup {[kind |-> "text",
           text |-> <<JsonLine([type |-> "list", items |-> l,
                                size |-> Len(l)])>>] :
             l \in SeqsUpTo({[isdict |-> TRUE, hasid |-> TRUE,
                              idkind |-> "int", id |-> 0,
                              hasanalysis |-> TRUE, analysis |-> "r1"]}, 2)}

\* The article dicts of a list after analyze_with_gemini assigned reasons
\* to the candidates at the 0-based positions of reasons.
WithReasons(articles, reasons) ==
    [k \in DOMAIN articles |->
        IF (k - 1) \in DOMAIN reasons
        THEN [articles[k] EXCEPT !.reason = reasons[k - 1]]
        ELSE articles[k]]

NoEmail == [called |-> FALSE, platform |-> <<>>, blogs |-> <<>>,
            outcome |-> "none"]
NoSave == [called |-> FALSE, arg |-> <<>>, status |-> "ok"]

MainLocalsReset ==
    /\ raw_platform' = <<>>
    /\ raw_blogs' = <<>>
    /\ new_platform' = <<>>
    /\ new_blogs' = <<>>
    /\ final_platform' = <<>>
    /\ final_blogs' = <<>>
    /\ emailed' = NoEmail
    /\ saved' = NoSave

\* main up to the first get_articles call: the credential checks, the
\* construction of the StateManager (db is None when it fails) and the
\* submission of the platform tasks.
MainStart ==
    /\ pc = "start"
    /\ IF ~creds.email
       THEN /\ pc' = "returned"
            /\ UNCHANGED <<db, gatherVars>>
       ELSE IF ~creds.gemini
       THEN /\ pc' = "exit1"
            /\ UNCHANGED <<db, gatherVars>>
       ELSE /\ pc' = "gather_p"
            /\ db' \in BOOLEAN
            /\ Submitted(platform_feeds)
    /\ UNCHANGED <<collection, clock, storeCall, savedLinks, frame, curVars,
                   parseVars, run, creds, raw_platform, raw_blogs, new_platform,
                   new_blogs, final_platform, final_blogs, emailed, saved,
                   prevNew,
                   delivered, curated>>

\* raw_platform = get_articles(platform_feeds) has returned; main calls
\* get_articles(blog_feeds).
MainGatherBlogs ==
    /\ pc = "gather_p"
    /\ gatherStatus = "returned"
    /\ raw_platform' = raw_items
    /\ Submitted(blog_feeds)
    /\ pc' = "gather_b"
    /\ UNCHANGED <<storeVars, curVars, parseVars, run, creds, raw_blogs,
                   new_platform, new_blogs, final_platform, final_blogs,
                   emailed, saved, prevNew,
                   delivered, curated>>

\* raw_blogs = get_articles(blog_feeds) has returned.
MainGathered ==
    /\ pc = "gather_b"
    /\ gatherStatus = "returned"
    /\ raw_blogs' = raw_items
    /\ pc' = "filter_p"
    /\ UNCHANGED <<storeVars, curVars, parseVars, gatherVars, run, creds,
                   raw_platform, new_platform, new_blogs, final_platform,
                   final_blogs, emailed, saved, prevNew,
                   delivered, curated>>

\* new_platform = state_manager.filter_new(raw_platform)
MainFilterPlatform ==
    /\ pc = "filter_p"
    /\ \E failTrip \in 0..1 :
         LET r == filter_new(raw_platform, failTrip)
         IN IF r.status = "raise"
            THEN pc' = "crashed" /\ UNCHANGED new_platform
            ELSE pc' = "filter_b" /\ new_platform' = r.val
    /\ UNCHANGED <<storeVars, curVars, parseVars, gatherVars, run, creds,
                   raw_platform, raw_blogs, new_blogs, final_platform,
                   final_blogs, emailed, saved, prevNew,
                   delivered, curated>>

\* new_blogs = state_manager.filter_new(raw_blogs), and the return of main
\* when neither group has a new article.
MainFilterBlogs ==
    /\ pc = "filter_b"
    /\ \E failTrip \in 0..1 :
         LET r == filter_new(raw_blogs, failTrip)
         IN IF r.status = "raise"
            THEN pc' = "crashed" /\ UNCHANGED new_blogs
            ELSE /\ new_blogs' = r.val
                 /\ pc' = IF new_platform = <<>> /\ r.val = <<>>
                          THEN "returned" ELSE "curate_p"
    /\ UNCHANGED <<storeVars, curVars, parseVars, gatherVars, run, creds,
                   raw_platform, raw_blogs, new_platform, final_platform,
                   final_blogs, emailed, saved, prevNew,
                   delivered, curated>>

\* final_platform = analyze_with_gemini(new_platform, limit=15) when
\* new_platform is not empty.
MainCuratePlatform ==
    /\ pc = "curate_p"
    /\ IF new_platform = <<>>
       THEN UNCHANGED <<final_platform, new_platform>>
       ELSE \E response \in MainResponses :
              LET r == analyze_with_gemini(TRUE, new_platform, MainLimit,
                                           response)
              IN /\ final_platform' = r.val
                 /\ new_platform' = WithReasons(new_platform, r.reasons)
    /\ curated' = IF new_platform = <<>> THEN curated ELSE curated + 1
    /\ pc' = "curate_b"
    /\ UNCHANGED <<storeVars, curVars, parseVars, gatherVars, run, creds,
                   raw_platform, raw_blogs, new_blogs, final_blogs, emailed,
                   saved, prevNew, delivered>>

\* final_blogs = analyze_with_gemini(new_blogs, limit=15) when new_blogs is
\* not empty, and the return of main when nothing was curated.
MainCurateBlogs ==
    /\ pc = "curate_b"
    /\ IF new_blogs = <<>>
       THEN /\ UNCHANGED <<final_blogs, new_blogs>>
            /\ pc' = IF final_platform # <<>> THEN "email" ELSE "returned"
       ELSE \E response \in MainResponses :
              LET r == analyze_with_gemini(TRUE, new_blogs, MainLimit, response)
              IN /\ final_blogs' = r.val
                 /\ new_blogs' = WithReasons(new_blogs, r.reasons)
                 /\ pc' = IF final_platform # <<>> \/ r.val # <<>>
                          THEN "email" ELSE "returned"
    /\ curated' = IF new_blogs = <<>> THEN curated ELSE curated + 1
    /\ UNCHANGED <<storeVars, curVars, parseVars, gatherVars, run, creds,
                   raw_platform, raw_blogs, new_platform, final_platform,
                   emailed, saved, prevNew, delivered>>

\* send_email without the try around the SMTP session: a failure leaves
\* main.
MainSendEmailUncaught ==
    /\ pc = "email"
    /\ \E outcome \in {"sent", "failed"} :
         /\ emailed' = [called |-> TRUE, platform |-> final_platform,
                        blogs |-> final_blogs, outcome |-> outcome]
         /\ pc' = IF outcome = "failed" THEN "crashed" ELSE "save"
    /\ UNCHANGED <<storeVars, curVars, parseVars, gatherVars, run, creds,
                   raw_platform, raw_blogs, new_platform, new_blogs,
                   final_platform, final_blogs, saved, prevNew, delivered,
                   curated>>

\* send_email(final_platform, final_blogs): an SMTP failure is caught and
\* logged inside send_email.
MainSendEmail ==
    /\ pc = "email"
    /\ \E outcome \in {"sent", "failed"} :
         emailed' = [called |-> TRUE, platform |-> final_platform,
                     blogs |-> final_blogs, outcome |-> outcome]
    /\ pc' = "save"
    /\ UNCHANGED <<storeVars, curVars, parseVars, gatherVars, run, creds,
                   raw_platform, raw_blogs, new_platform, new_blogs,
                   final_platform, final_blogs, saved, prevNew,
                   delivered, curated>>

\* main saving the platform group only: save_processed(final_platform).
MainSaveProcessedPlatformOnly ==
    /\ pc = "save"
    /\ \E failCommit \in 0..1 :
         LET r == save_processed(final_platform, clock, failCommit)
         IN /\ collection' = r.coll
            /\ saved' = [called |-> TRUE, arg |-> final_platform,
                         status |-> r.status]
            /\ pc' = IF r.status = "raise" THEN "crashed" ELSE "returned"
    /\ clock' = clock + 1
    /\ UNCHANGED <<db, storeCall, savedLinks, frame, curVars, parseVars,
                   gatherVars, run, creds, raw_platform, raw_blogs, new_platform,
                   new_blogs, final_platform, final_blogs, emailed, prevNew,
                   delivered, curated>>

\* state_manager.save_processed(new_platform + new_blogs)
MainSaveProcessed ==
    /\ pc = "save"
    /\ \E failCommit \in 0..1 :
         LET r == save_processed(new_platform \o new_blogs, clock, failCommit)
         IN /\ collection' = r.coll
            /\ saved' = [called |-> TRUE, arg |-> new_platform \o new_blogs,
                         status |-> r.status]
            /\ pc' = IF r.status = "raise" THEN "crashed" ELSE "returned"
    /\ clock' = clock + 1
    /\ UNCHANGED <<db, storeCall, savedLinks, frame, curVars, parseVars,
                   gatherVars, run, creds, raw_platform, raw_blogs, new_platform,
                   new_blogs, final_platform, final_blogs, emailed, prevNew,
                   delivered, curated>>

\* The process has ended; the scheduler starts the next run of main.
NextRun ==
    /\ pc \in {"returned", "crashed", "exit1"}
    /\ run < MaxRuns
    /\ run' = run + 1
    /\ pc' = "start"
    /\ prevNew' = IF db THEN LinksOf(new_platform \o new_blogs) ELSE {}
    /\ delivered' = IF db /\ saved.called /\ saved.status = "ok"
                    THEN delivered
                         \cup LinksOf(emailed.platform \o emailed.blogs)
                    ELSE delivered
    /\ curated' = 0
    /\ MainLocalsReset
    /\ feeds' = {}
    /\ tasks' = <<>>
    /\ raw_items' = <<>>
    /\ logged' = <<>>
    /\ gatherStatus' = "idle"
    /\ UNCHANGED <<storeVars, curVars, parseVars, creds>>

MainIdle ==
    /\ pc = "idle"
    /\ run = 1
    /\ creds = [email |-> TRUE, gemini |-> TRUE]
    /\ raw_platform = <<>>
    /\ raw_blogs = <<>>
    /\ new_platform = <<>>
    /\ new_blogs = <<>>
    /\ final_platform = <<>>
    /\ final_blogs = <<>>
    /\ emailed = NoEmail
    /\ saved = NoSave
    /\ prevNew = {}
    /\ delivered = {}
    /\ curated = 0

\* -------------------------------------------------------------- SpecStore
\* Any sequence of filter_new and save_processed calls on one StateManager.
Batches == SeqsUpTo(SmallArticles, MaxBatch)

NoFrame == [phase |-> "idle"]

NoCall == [op |-> "none", arg |-> <<>>, fault |-> 0, status |-> "ok",
           val |-> <<>>, trips |-> <<>>, commits |-> <<>>, writes |-> 0]

\* StateManager.__init__ has run: db is None when project_id is not set or
\* firestore.Client raised.
StoreConstructed ==
    /\ db \in BOOLEAN
    /\ collection = <<>>
    /\ clock = 0
    /\ storeCall = NoCall
    /\ savedLinks = {}
    /\ frame = NoFrame

\* The StateManager as the specifications that make no store call leave it.
StoreUnused ==
    /\ db = FALSE
    /\ collection = <<>>
    /\ clock = 0
    /\ storeCall = NoCall
    /\ savedLinks = {}
    /\ frame = NoFrame

CurateIdle == curIn = [phase |-> "idle"] /\ curOut = [phase |-> "idle"]

ParserIdle == parseIn = [phase |-> "idle"] /\ parseOut = [phase |-> "idle"]

InitStore ==
    StoreConstructed /\ CurateIdle /\ ParserIdle /\ GatherIdle /\ MainIdle

FilterNewCall ==
    \E b \in Batches, failTrip \in 0..1 :
        LET r == filter_new(b, failTrip)
        IN /\ storeCall' = [op |-> "filter_new", arg |-> b, fault |-> failTrip,
                            status |-> r.status, val |-> r.val,
                            trips |-> r.trips, commits |-> <<>>, writes |-> 0]
           /\ UNCHANGED <<db, collection, clock, savedLinks, frame, curVars,
                          parseVars, gatherVars, mainVars>>

SaveProcessedCall ==
    \E b \in Batches, failCommit \in 0..1 :
        LET r == save_processed(b, clock, failCommit)
        IN /\ clock < MaxClock
           /\ collection' = r.coll
           /\ clock' = clock + 1
           /\ storeCall' = [op |-> "save_processed", arg |-> b,
                            fault |-> failCommit, status |-> r.status,
                            val |-> <<>>, trips |-> <<>>,
                            commits |-> r.commits, writes |-> r.writes]
           /\ savedLinks' = IF r.status = "ok"
                            THEN savedLinks \cup LinksOf(b) ELSE savedLinks
           /\ UNCHANGED <<db, frame, curVars, parseVars, gatherVars, mainVars>>

NextStore == FilterNewCall \/ SaveProcessedCall

SpecStore == InitStore /\ [][NextStore]_vars

\* ---------------------------------------------------------------- SpecBulk
\* One StateManager call on a long batch, a step of its loop at a time.
\* Longest batch of SpecBulk.
MaxBulk == 850

BulkSizes ==
    {1, ChunkSize, ChunkSize + 1, 2 * ChunkSize + 1, BatchCap - 1, BatchCap,
     BatchCap + 1, 2 * BatchCap, MaxBulk}

\* n articles, the k-th with title and link k; with dup the last one has the
\* link of the first.
BulkArticles(n, dup) ==
    [k \in 1..n |-> Article("feed", k, IF dup /\ k = n THEN 1 ELSE k)]

BulkBatches == {<<>>} \cup {BulkArticles(n, d) : n \in BulkSizes, d \in BOOLEAN}

\* The collection after earlier runs saved the links of S.
Stored(S) ==
    [id \in {get_id(l) : l \in S} |->
        [title |-> id[2], url |-> id[2], processed_at |-> 0]]

Preloads == {Stored({}), Stored({1}), Stored(2..(ChunkSize + 2))}

\* The frame of a call that has just been made.  round is 2 in a filter_new
\* call that repeats the call before it, and first is what that call returned.
Frame(op, articles) ==
    [phase |-> "called", op |-> op, articles |-> articles, i |-> 0,
     seen_ids |-> {}, inflight |-> {}, trips |-> <<>>, k |-> 1,
     batch |-> <<>>, commits |-> <<>>, status |-> "none", val |-> <<>>,
     round |-> 1, first |-> <<>>]

\* doc_refs of filter_new.
DocRefs(articles) == [j \in DOMAIN articles |-> get_id(articles[j].link)]

\* main hands save_processed lists that filter_new returned on the same
\* store: none of their links is stored.
InitBulk ==
    /\ db \in BOOLEAN
    /\ collection \in Preloads
    /\ clock = 1
    /\ storeCall = NoCall
    /\ savedLinks = {}
    /\ frame \in {Frame(op, b) : op \in {"filter_new", "save_processed"},
                                 b \in BulkBatches}
    /\ frame.op = "save_processed" =>
          KeepNew(frame.articles, StoredIds(collection)) = frame.articles
    /\ CurateIdle
    /\ ParserIdle
    /\ GatherIdle
    /\ MainIdle

\* if not self.db or not articles: return
BulkEnter ==
    /\ frame.phase = "called"
    /\ frame' = IF ~db \/ frame.articles = <<>>
                THEN [frame EXCEPT !.phase = "returned", !.status = "ok",
                                   !.val = IF frame.op = "filter_new"
                                           THEN frame.articles ELSE <<>>]
                ELSE [frame EXCEPT !.phase = "loop"]
    /\ UNCHANGED <<db, collection, clock, storeCall, savedLinks, curVars,
                   parseVars, gatherVars, mainVars>>

\* The for loop of filter_new takes the next chunk and calls get_all.
FilterIssue ==
    /\ frame.phase = "loop"
    /\ frame.op = "filter_new"
    /\ frame.inflight = {}
    /\ frame.i < Len(frame.articles)
    /\ frame' = [frame EXCEPT
                   !.inflight = {frame.i},
                   !.trips = Append(@, ChunkAt(DocRefs(frame.articles),
                                               frame.i))]
    /\ UNCHANGED <<db, collection, clock, storeCall, savedLinks, curVars,
                   parseVars, gatherVars, mainVars>>

\* get_all gives its snapshots, or raises; the ids that exist are added to
\* seen_ids and the loop goes on to the next offset.
FilterAnswer ==
    /\ frame.phase = "loop"
    /\ frame.op = "filter_new"
    /\ frame.inflight # {}
    /\ \E ok \in BOOLEAN :
         frame' = IF ok
                  THEN [frame EXCEPT
                          !.inflight = {},
                          !.seen_ids =
                             @ \cup get_all(collection,
                                            frame.trips[Len(frame.trips)]),
                          !.i = @ + ChunkSize]
                  ELSE [frame EXCEPT !.inflight = {}, !.phase = "returned",
                                     !.status = "raise"]
    /\ UNCHANGED <<db, collection, clock, storeCall, savedLinks, curVars,
                   parseVars, gatherVars, mainVars>>

\* FilterReturn where filter_new also marks what it returns as seen.
FilterReturnMarking ==
    /\ frame.phase = "loop"
    /\ frame.op = "filter_new"
    /\ frame.inflight = {}
    /\ frame.i >= Len(frame.articles)
    /\ LET new_articles == KeepNew(frame.articles, frame.seen_ids)
       IN /\ frame' = [frame EXCEPT !.phase = "returned", !.status = "ok",
                                    !.val = new_articles]
          /\ collection' =
                ApplyBatch(collection,
                           [j \in DOMAIN new_articles |->
                              [id |-> get_id(new_articles[j].link),
                               title |-> new_articles[j].title,
                               url |-> new_articles[j].link,
                               processed_at |-> clock]])
    /\ UNCHANGED <<db, clock, storeCall, savedLinks, curVars, parseVars,
                   gatherVars, mainVars>>

\* The filter loop of filter_new and its return.
FilterReturn ==
    /\ frame.phase = "loop"
    /\ frame.op = "filter_new"
    /\ frame.inflight = {}
    /\ frame.i >= Len(frame.articles)
    /\ frame' = [frame EXCEPT !.phase = "returned", !.status = "ok",
                              !.val = KeepNew(frame.articles, frame.seen_ids)]
    /\ UNCHANGED <<db, collection, clock, storeCall, savedLinks, curVars,
                   parseVars, gatherVars, mainVars>>

\* filter_new has returned and is called again on the same batch, no
\* save_processed call between the two.
FilterAgain ==
    /\ frame.phase = "returned"
    /\ frame.op = "filter_new"
    /\ frame.status = "ok"
    /\ frame.round = 1
    /\ frame' = [Frame("filter_new", frame.articles) EXCEPT
                   !.round = 2, !.first = frame.val]
    /\ UNCHANGED <<db, collection, clock, storeCall, savedLinks, curVars,
                   parseVars, gatherVars, mainVars>>

\* One turn of the loop of save_processed: batch.set for article k at the
\* time datetime.now() gives, count += 1, and the commit of a full batch
\* (which the backend can fail).
SaveSet ==
    /\ frame.phase = "loop"
    /\ frame.op = "save_processed"
    /\ frame.k <= Len(frame.articles)
    /\ LET a == frame.articles[frame.k]
           w == [id |-> get_id(a.link), title |-> a.title, url |-> a.link,
                 processed_at |-> clock, pos |-> frame.k]
           batch1 == Append(frame.batch, w)
       IN IF BatchFull(Len(batch1))
          THEN \E ok \in BOOLEAN :
                 IF ok
                 THEN /\ collection' = ApplyBatch(collection, batch1)
                      /\ frame' = [frame EXCEPT
                                     !.k = @ + 1, !.batch = <<>>,
                                     !.commits =
                                        Append(@, [j \in DOMAIN batch1 |->
                                                      batch1[j].pos])]
                 ELSE /\ frame' = [frame EXCEPT !.batch = batch1,
                                                !.phase = "returned",
                                                !.status = "raise"]
                      /\ UNCHANGED collection
          ELSE /\ frame' = [frame EXCEPT !.k = @ + 1, !.batch = batch1]
               /\ UNCHANGED collection
    /\ clock' = clock + 1
    /\ UNCHANGED <<db, storeCall, savedLinks, curVars, parseVars, gatherVars,
                   mainVars>>

\* After the loop: if count > 0 the last batch is committed, and
\* save_processed returns.
SaveFlush ==
    /\ frame.phase = "loop"
    /\ frame.op = "save_processed"
    /\ frame.k > Len(frame.articles)
    /\ IF Len(frame.batch) > 0
       THEN \E ok \in BOOLEAN :
              IF ok
              THEN /\ collection' = ApplyBatch(collection, frame.batch)
                   /\ frame' = [frame EXCEPT
                                  !.batch = <<>>, !.phase = "returned",
                                  !.status = "ok",
                                  !.commits =
                                     Append(@, [j \in DOMAIN frame.batch |->
                                                   frame.batch[j].pos])]
              ELSE /\ frame' = [frame EXCEPT !.phase = "returned",
                                             !.status = "raise"]
                   /\ UNCHANGED collection
       ELSE /\ frame' = [frame EXCEPT !.phase = "returned", !.status = "ok"]
            /\ UNCHANGED collection
    /\ UNCHANGED <<db, clock, storeCall, savedLinks, curVars, parseVars,
                   gatherVars, mainVars>>

NextBulk ==
    \/ BulkEnter
    \/ FilterIssue
    \/ FilterAnswer
    \/ FilterReturn
    \/ FilterAgain
    \/ SaveSet
    \/ SaveFlush

SpecBulk == InitBulk /\ [][NextBulk]_vars

\* ------------------------------------------------------------- SpecCurate
\* One analyze_with_gemini call on every article list, limit and response of
\* the ranking service within the bounds.
Selection(isdict, hasid, idkind, id, hasanalysis, analysis) ==
    [isdict |-> isdict, hasid |-> hasid, idkind |-> idkind, id |-> id,
     hasanalysis |-> hasanalysis, analysis |-> analysis]

\* Integer ids around the ends of a short window and of a full window.
IntIds == (-(MaxArts + 1))..(MaxArts + 1)
             \cup {CandidateWindow - 1, CandidateWindow, CandidateWindow + 1}

Selections ==
    {Selection(TRUE, TRUE, "int", i, TRUE, "r1") : i \in IntIds}
    \cup {Selection(TRUE, TRUE, "int", 0, FALSE, "r1"),
          Selection(TRUE, TRUE, "int", 0, TRUE, "None"),
          Selection(TRUE, TRUE, "int", 0, TRUE, "r2"),
          Selection(TRUE, TRUE, "float", 0, TRUE, "r1"),
          Selection(TRUE, TRUE, "float", CandidateWindow + 1, TRUE, "r1"),
          Selection(TRUE, TRUE, "str", 0, TRUE, "r1"),
          Selection(TRUE, FALSE, "int", 0, TRUE, "r1"),
          Selection(FALSE, FALSE, "int", 0, FALSE, "r1")}

JsonList(items) == [type |-> "list", items |-> items, size |-> Len(items)]

JsonOther == {[type |-> t, items |-> <<>>, size |-> 2] :
                 t \in {"dict", "string", "number", "null", "invalid"}}

Text(lines) == [kind |-> "text", text |-> lines]

Responses ==
    {[kind |-> "api_error", text |-> <<>>], Text(<<>>), Text(<<FenceOpen>>)}
    \cup {Text(<<JsonLine(JsonList(l))>>) : l \in SeqsUpTo(Selections, MaxSel)}
    \cup {Text(<<JsonLine(v)>>) : v \in JsonOther}
    \cup {Text(<<FenceOpen, JsonLine(JsonList(l)), FenceClose>>) :
             l \in SeqsUpTo(Selections, 1)}
    \cup {Text(<<FenceOpen, JsonLine(JsonList(l))>>) :
             l \in SeqsUpTo(Selections, 1)}
    \cup {Text(<<FenceOpen, JsonLineFenced(JsonList(<<>>))>>),
          Text(<<FenceOpen, FenceClose>>)}

\* The article list of length n whose k-th article has title and link k.
ArticlesOfLen(n) == [k \in 1..n |-> Article("feed", k, k)]

ArticleLists ==
    {ArticlesOfLen(n) :
        n \in (0..MaxArts) \cup {CandidateWindow - 1, CandidateWindow,
                                 CandidateWindow + 1}}

Limits == {1, MainLimit}

InitCurate ==
    /\ StoreUnused
    /\ curIn \in [phase : {"called"}, client : BOOLEAN,
                   articles : ArticleLists, limit : Limits,
                   response : Responses]
    /\ curOut = [phase |-> "idle"]
    /\ ParserIdle
    /\ GatherIdle
    /\ MainIdle

Curate ==
    /\ curOut.phase = "idle"
    /\ LET r == analyze_with_gemini(curIn.client, curIn.articles, curIn.limit,
                                    curIn.response)
       IN curOut' = [phase |-> "returned", status |-> r.status, val |-> r.val,
                     log |-> r.log, reasons |-> r.reasons,
                     indexed |-> r.indexed, window |-> r.window]
    /\ UNCHANGED <<curIn, storeVars, parseVars, gatherVars, mainVars>>

NextCurate == Curate

SpecCurate == InitCurate /\ [][NextCurate]_vars

\* ------------------------------------------------------------- SpecParser
\* One fetch of either parser on every feed or changelog within the bounds.
Summaries ==
    {[kind |-> "absent", text |-> <<>>], [kind |-> "str", text |-> <<"w">>],
     [kind |-> "notstr", text |-> <<>>]}

Entries ==
    {[hastitle |-> ht, title |-> 1, haslink |-> l # SentinelLink, link |-> l,
      summary |-> sm] :
        ht \in BOOLEAN, l \in Links, sm \in Summaries}

Feeds ==
    {[variant |-> "rss", net |-> n, parse |-> "ok", entries |-> e] :
        n \in NetOutcomes, e \in SeqsUpTo(Entries, MaxEntries)}
    \cup {[variant |-> "rss", net |-> "ok", parse |-> "Exception",
           entries |-> <<>>]}

ChangelogLines ==
    {[kind |-> "h2", indent |-> i, version |-> v, len |-> 9] :
        i \in BOOLEAN, v \in {1, 2}}
    \cup {[kind |-> "text", indent |-> FALSE, version |-> 0, len |-> n] :
             n \in {12, 300}}
    \cup {[kind |-> "blank", indent |-> FALSE, version |-> 0, len |-> 0]}

\* A changelog of n sections, the k-th headed "## k" with one line of body.
LongChangelog(n) ==
    [j \in 1..(2 * n) |->
        IF j % 2 = 1
        THEN [kind |-> "h2", indent |-> FALSE, version |-> (j + 1) \div 2,
              len |-> 9]
        ELSE [kind |-> "text", indent |-> FALSE, version |-> 0, len |-> 12]]

Changelogs ==
    {[variant |-> "changelog", net |-> n, lines |-> l] :
        n \in NetOutcomes, l \in SeqsUpTo(ChangelogLines, MaxLines)}
    \cup {[variant |-> "changelog", net |-> "ok", lines |-> LongChangelog(n)] :
             n \in (MaxSections - 1)..(MaxSections + 2)}

InitParser ==
    /\ StoreUnused
    /\ CurateIdle
    /\ parseIn \in {[phase |-> "called", source |-> "feed", url |-> 1,
                      doc |-> d] : d \in Feeds \cup Changelogs}
    /\ parseOut = [phase |-> "idle"]
    /\ GatherIdle
    /\ MainIdle

\* RSSParser().fetch(source, url)
FetchRss ==
    /\ parseOut.phase = "idle"
    /\ parseIn.doc.variant = "rss"
    /\ LET r == rss_fetch(parseIn.source, parseIn.doc)
       IN parseOut' = [phase |-> "returned", status |-> r.status,
                       val |-> r.val, log |-> r.log]
    /\ UNCHANGED <<parseIn, storeVars, curVars, gatherVars, mainVars>>

\* GitHubChangelogParser().fetch(source, url)
FetchChangelog ==
    /\ parseOut.phase = "idle"
    /\ parseIn.doc.variant = "changelog"
    /\ LET r == changelog_fetch(parseIn.source, parseIn.url, parseIn.doc)
       IN parseOut' = [phase |-> "returned", status |-> r.status,
                       val |-> r.val, log |-> r.log]
    /\ UNCHANGED <<parseIn, storeVars, curVars, gatherVars, mainVars>>

NextParser == FetchRss \/ FetchChangelog

SpecParser == InitParser /\ [][NextParser]_vars

\* -------------------------------------------------------------- SpecClean
\* One clean_html call on None and on every str within the bounds.
\* Longest str handed to clean_html, in tokens.
MaxHtml == 4

Tokens == {"w", " ", "\n", "<", ">", "&amp;", "&#62;"}

RawHtml ==
    {[kind |-> "absent", text |-> <<>>]}
    \cup {[kind |-> "str", text |-> t] : t \in SeqsUpTo(Tokens, MaxHtml)}

InitClean ==
    /\ StoreUnused
    /\ CurateIdle
    /\ parseIn \in {[phase |-> "called", raw |-> r] : r \in RawHtml}
    /\ parseOut = [phase |-> "idle"]
    /\ GatherIdle
    /\ MainIdle

\* clean_html(raw_html)
CleanHtml ==
    /\ parseOut.phase = "idle"
    /\ LET r == clean_html(parseIn.raw)
       IN parseOut' = [phase |-> "returned", exc |-> r.exc, val |-> r.val]
    /\ UNCHANGED <<parseIn, storeVars, curVars, gatherVars, mainVars>>

NextClean == CleanHtml

SpecClean == InitClean /\ [][NextClean]_vars

\* ------------------------------------------------------------- SpecGather
\* One get_articles call on every set of sources.
InitGather ==
    /\ StoreUnused
    /\ CurateIdle
    /\ ParserIdle
    /\ MainIdle
    /\ feeds \in SUBSET Sources
    /\ tasks = [s \in feeds |-> [state |-> "running", raised |-> FALSE,
                                 items |-> <<>>]]
    /\ raw_items = <<>>
    /\ logged = [s \in feeds |-> 0]
    /\ gatherStatus = "running"

NextGather ==
    \/ \E s \in feeds : TaskFinish(s)
    \/ \E s \in feeds : Collect(s)
    \/ GatherReturn

SpecGather == InitGather /\ [][NextGather]_vars

\* --------------------------------------------------------------------- Spec
\* Runs of main, one after the other, on one seen_articles collection.
Init ==
    /\ StoreUnused
    /\ CurateIdle
    /\ ParserIdle
    /\ GatherIdle
    /\ pc = "start"
    /\ run = 1
    /\ creds \in [email : BOOLEAN, gemini : BOOLEAN]
    /\ raw_platform = <<>>
    /\ raw_blogs = <<>>
    /\ new_platform = <<>>
    /\ new_blogs = <<>>
    /\ final_platform = <<>>
    /\ final_blogs = <<>>
    /\ emailed = NoEmail
    /\ saved = NoSave
    /\ prevNew = {}
    /\ delivered = {}
    /\ curated = 0

Next ==
    \/ MainStart
    \/ \E s \in feeds : TaskFinish(s)
    \/ \E s \in feeds : Collect(s)
    \/ GatherReturn
    \/ MainGatherBlogs
    \/ MainGathered
    \/ MainFilterPlatform
    \/ MainFilterBlogs
    \/ MainCuratePlatform
    \/ MainCurateBlogs
    \/ MainSendEmail
    \/ MainSaveProcessed
    \/ NextRun

Spec == Init /\ [][Next]_vars

\* C1: in every run of main in which filter_new returns a new article,
\* save_processed is called with all the filtered-new articles of both
\* groups, also when curation returns nothing for both groups; so with the
\* store available no link that was new in one run is new in the next run.
C1_SaveAllFilteredNew ==
    /\ (pc = "returned" /\ (new_platform # <<>> \/ new_blogs # <<>>))
          => (saved.called /\ saved.arg = new_platform \o new_blogs)
    /\ (db /\ pc \in {"curate_p", "curate_b", "email", "save", "returned"})
          => LinksOf(new_platform \o new_blogs) \cap prevNew = {}

\* The number of positions of seq that hold a.
Count(seq, a) == Cardinality({i \in DOMAIN seq : seq[i] = a})

\* The sources of the call whose task returned.
Returned == {s \in feeds : ~tasks[s].raised}

\* How often article a occurs in the results of the tasks of S.
RECURSIVE CountInTasks(_, _)
CountInTasks(S, a) ==
    IF S = {} THEN 0
    ELSE LET x == CHOOSE y \in S : TRUE
         IN Count(tasks[x].items, a) + CountInTasks(S \ {x}, a)

\* The number of articles in the results of the tasks of S.
RECURSIVE LenOfTasks(_)
LenOfTasks(S) ==
    IF S = {} THEN 0
    ELSE LET x == CHOOSE y \in S : TRUE
         IN Len(tasks[x].items) + LenOfTasks(S \ {x})

\* C7: whatever tasks raise, get_articles does not raise; when it returns,
\* raw_items holds exactly the articles of the tasks that returned (each as
\* often as the tasks returned it) and one error was logged for every source
\* whose task raised, and none for the others.
C7_FaultIsolation ==
    /\ gatherStatus # "raised"
    /\ gatherStatus = "returned" =>
          LET all == Range(raw_items)
                        \cup UNION {Range(tasks[s].items) : s \in feeds}
          IN /\ Len(raw_items) = LenOfTasks(Returned)
             /\ \A a \in all : Count(raw_items, a) = CountInTasks(Returned, a)
             /\ \A s \in feeds :
                   logged[s] = IF tasks[s].raised THEN 1 ELSE 0

\* Three sources: the task of one raised, the two others returned articles,
\* and get_articles returned those.
C7_Witness ==
    /\ gatherStatus = "returned"
    /\ feeds = Sources
    /\ tasks["s2"].raised
    /\ ~tasks["s1"].raised /\ Len(tasks["s1"].items) = 2
    /\ ~tasks["s3"].raised /\ Len(tasks["s3"].items) = 1
    /\ Len(raw_items) = 3
    /\ logged = [s \in Sources |-> IF s = "s2" THEN 1 ELSE 0]

\* A failure happened in the fetch: the GET or the feed library raised, or
\* the conversion of an entry raised.
FetchFailed ==
    \/ parseIn.doc.net # "ok"
    \/ /\ parseIn.doc.variant = "rss"
       /\ \/ parseIn.doc.parse # "ok"
          \/ \E k \in DOMAIN parseIn.doc.entries :
                parseIn.doc.entries[k].summary.kind = "notstr"

\* C8: fetch never raises, and whenever a network or parse failure occurs at
\* any point of the fetch the result is the empty sequence.
C8_FailureGivesEmpty ==
    parseOut.phase = "returned" =>
        /\ parseOut.status = "ok"
        /\ FetchFailed => parseOut.val = <<>>

\* The call of SpecCurate has returned a list read from a plain JSON list.
CurateReturned == curOut.phase = "returned"

IsPlainList(response) ==
    /\ response.kind = "text"
    /\ Len(response.text) = 1
    /\ ~response.text[1].starts
    /\ ~response.text[1].ends
    /\ response.text[1].json.type = "list"

\* A selection whose id is an integer inside a window of n candidates.
ValidSelection(sel, n) ==
    sel.isdict /\ sel.hasid /\ sel.idkind = "int" /\ 0 <= sel.id /\ sel.id < n

\* A selection whose id is an integer at or past the end of the window.
PastWindow(sel, n) ==
    sel.isdict /\ sel.hasid /\ sel.idkind = "int" /\ sel.id >= n

\* val is the candidates the valid selections of items name, in the order
\* of items (the k-th article of SpecCurate has link k).
ReturnsValidOf(val, items, n) ==
    LET valid == SelectSeq(items, LAMBDA e : ValidSelection(e, n))
    IN /\ Len(val) = Len(valid)
       /\ \A j \in DOMAIN valid : val[j].link = valid[j].id + 1

\* C3: an id is used as an index only if it is an integer i with
\* 0 <= i < len(candidates); a selection with any other id is skipped and
\* the valid selections of the same response are still returned.
C3_OnlyValidIdsIndexed ==
    (CurateReturned /\ curIn.client) =>
        /\ \A j \in DOMAIN curOut.indexed :
              /\ curOut.indexed[j].idkind = "int"
              /\ 0 <= curOut.indexed[j].id
              /\ curOut.indexed[j].id < curOut.window
        /\ IsPlainList(curIn.response) =>
              ReturnsValidOf(curOut.val, curIn.response.text[1].json.items,
                             curOut.window)

\* C4: the window is the first min(500, len(articles)) articles; a selection
\* whose integer id is >= the size of the window is never used as an index,
\* and where the other selections of the response are valid they are returned.
C4_UpperBoundsCheck ==
    (CurateReturned /\ curIn.client) =>
        /\ curOut.window = Min(500, Len(curIn.articles))
        /\ \A j \in DOMAIN curOut.indexed :
              curOut.indexed[j].id < curOut.window
        /\ (/\ IsPlainList(curIn.response)
            /\ \A e \in Range(curIn.response.text[1].json.items) :
                  ValidSelection(e, curOut.window)
                     \/ PastWindow(e, curOut.window))
           => ReturnsValidOf(curOut.val, curIn.response.text[1].json.items,
                             curOut.window)

\* 501 articles: id 500 names an article outside the window and is dropped,
\* id 499 of the same response is returned.
C4_Witness ==
    /\ CurateReturned
    /\ curIn.client
    /\ Len(curIn.articles) = 501
    /\ curOut.window = 500
    /\ IsPlainList(curIn.response)
    /\ curIn.response.text[1].json.items =
          <<Selection(TRUE, TRUE, "int", 500, TRUE, "r1"),
            Selection(TRUE, TRUE, "int", 499, TRUE, "r1")>>
    /\ Len(curOut.val) = 1
    /\ curOut.val[1].link = 500
    /\ curOut.indexed = <<[idkind |-> "int", id |-> 499]>>

\* C5: analyze_with_gemini returns at most limit articles.
C5_AtMostLimit ==
    CurateReturned => Len(curOut.val) <= curIn.limit

\* C6: analyze_with_gemini never raises; it returns a list, which is empty
\* when the client is not configured, the call failed or the response could
\* not be parsed or iterated.
C6_NeverRaises ==
    CurateReturned =>
        /\ curOut.status = "ok"
        /\ curOut.log # "none" => curOut.val = <<>>
        /\ ~curIn.client => curOut.log = "no_client"
        /\ (curIn.client /\ curIn.response.kind = "api_error")
              => curOut.log = "api_error"
        /\ (/\ curIn.client
            /\ curIn.response.kind = "text"
            /\ parse_json_response(curIn.response.text).exc # "none")
              => curOut.log \in {"parse_error", "api_error"}
        /\ (curIn.client /\ curIn.response.kind = "text"
              /\ Len(curIn.response.text) = 1
              /\ curIn.response.text[1].json.type \in {"number", "null"})
              => curOut.log = "api_error"

\* A response that is a JSON number was iterated: the TypeError was caught
\* by the second except clause and the empty list returned.
C6_Witness ==
    /\ CurateReturned
    /\ curIn.client
    /\ curIn.response.kind = "text"
    /\ Len(curIn.response.text) = 1
    /\ curIn.response.text[1].json.type = "number"
    /\ curOut.status = "ok"
    /\ curOut.log = "api_error"
    /\ curOut.val = <<>>

\* C2: with the store available, once save_processed(B) has returned, every
\* later filter_new(B') whose links all occur in saved batches returns the
\* empty list, whatever filter_new and save_processed calls came between.
C2_SavedNeverNewAgain ==
    (/\ db
     /\ storeCall.op = "filter_new"
     /\ storeCall.status = "ok"
     /\ LinksOf(storeCall.arg) \subseteq savedLinks)
    => storeCall.val = <<>>

\* A non-empty batch of saved links was filtered after a second save.
C2_Witness ==
    /\ db
    /\ clock = 2
    /\ storeCall.op = "filter_new"
    /\ storeCall.status = "ok"
    /\ storeCall.arg # <<>>
    /\ LinksOf(storeCall.arg) \subseteq savedLinks
    /\ storeCall.val = <<>>

\* C9: when db is None, filter_new returns its input unchanged and
\* save_processed makes no write and no commit; neither raises, and the
\* collection is never touched.
C9_StoreAbsentPassThrough ==
    ~db =>
        /\ collection = <<>>
        /\ storeCall.status = "ok"
        /\ storeCall.op = "filter_new" =>
               storeCall.val = storeCall.arg /\ storeCall.trips = <<>>
        /\ storeCall.op = "save_processed" =>
               storeCall.commits = <<>> /\ storeCall.writes = 0

\* With db None, a non-empty batch went through filter_new while the
\* backend was failing, after an earlier save_processed call.
C9_Witness ==
    /\ ~db
    /\ clock > 0
    /\ storeCall.op = "filter_new"
    /\ storeCall.fault = 1
    /\ Len(storeCall.arg) = 2
    /\ storeCall.val = storeCall.arg

\* C10: when a get_all round trip of filter_new fails after the StateManager
\* was constructed with a client, filter_new returns all its input as new
\* and raises nothing.
C10_BackendFailurePassThrough ==
    (/\ db
     /\ storeCall.op = "filter_new"
     /\ storeCall.arg # <<>>
     /\ storeCall.fault = 1)
    => (storeCall.status = "ok" /\ storeCall.val = storeCall.arg)

\* ceil(n / d)
CeilDiv(n, d) == (n + d - 1) \div d

\* The save_processed call of SpecBulk has returned without raising, on a
\* batch of at least one article with the store available.
BulkSaved ==
    /\ db
    /\ frame.op = "save_processed"
    /\ frame.phase = "returned"
    /\ frame.status = "ok"
    /\ frame.articles # <<>>

\* C11: save_processed never holds more than 400 writes in a batch; when it
\* returns on n >= 1 articles it has made exactly ceil(n/400) commits, the
\* c-th holding the writes of articles 400(c-1)+1 .. min(400c, n) in order
\* (every article once, no commit empty), no write is left in the batch and
\* every article has its document in the collection.
C11_BatchedWrites ==
    /\ frame.op = "save_processed" => Len(frame.batch) <= 400
    /\ BulkSaved =>
          LET n == Len(frame.articles)
          IN /\ Len(frame.commits) = CeilDiv(n, 400)
             /\ \A c \in DOMAIN frame.commits :
                   /\ Len(frame.commits[c]) = Min(400, n - 400 * (c - 1))
                   /\ Len(frame.commits[c]) >= 1
                   /\ \A j \in DOMAIN frame.commits[c] :
                         frame.commits[c][j] = 400 * (c - 1) + j
             /\ frame.batch = <<>>
             /\ \A k \in 1..n :
                   get_id(frame.articles[k].link) \in DOMAIN collection

\* 850 articles were saved in 3 commits of 400, 400 and 50 writes.
C11_Witness ==
    /\ BulkSaved
    /\ Len(frame.articles) = 850
    /\ Len(frame.commits) = 3
    /\ Len(frame.commits[1]) = 400
    /\ Len(frame.commits[2]) = 400
    /\ Len(frame.commits[3]) = 50

\* The filter_new call of SpecBulk has returned without raising, on a batch
\* of at least one article with the store available.
BulkFiltered ==
    /\ db
    /\ frame.op = "filter_new"
    /\ frame.phase = "returned"
    /\ frame.status = "ok"
    /\ frame.articles # <<>>

\* C12: at most one get_all round trip of filter_new is in flight at any
\* time; the c-th round trip carries the keys of candidates 30(c-1)+1 ..
\* min(30c, n) in order, at most 30 of them; and when filter_new returns on
\* n >= 1 articles it has made exactly ceil(n/30) round trips, which cover
\* the key of every candidate once.
C12_ChunkedChecks ==
    /\ Cardinality(frame.inflight) <= 1
    /\ \A c \in DOMAIN frame.trips :
          /\ Len(frame.trips[c]) >= 1
          /\ Len(frame.trips[c]) <= 30
          /\ Len(frame.trips[c]) = Min(30, Len(frame.articles) - 30 * (c - 1))
          /\ \A j \in DOMAIN frame.trips[c] :
                frame.trips[c][j] =
                   get_id(frame.articles[30 * (c - 1) + j].link)
    /\ BulkFiltered => Len(frame.trips) = CeilDiv(Len(frame.articles), 30)

\* 61 articles were filtered in 3 round trips of 30, 30 and 1 keys.
C12_Witness ==
    /\ BulkFiltered
    /\ Len(frame.articles) = 61
    /\ Len(frame.trips) = 3
    /\ Len(frame.trips[1]) = 30
    /\ Len(frame.trips[2]) = 30
    /\ Len(frame.trips[3]) = 1

\* C13: no step of a filter_new call changes the collection, and a
\* filter_new call that repeats a filter_new call on the same batch, with no
\* save_processed between them, returns what the first returned.
C13_FilterIdempotent ==
    /\ []((/\ frame.op = "filter_new"
           /\ frame.phase = "returned"
           /\ frame.status = "ok"
           /\ frame.round = 2)
          => frame.val = frame.first)
    /\ [][frame.op = "filter_new" => collection' = collection]_vars

\* The second of two filter_new calls on 61 articles, 31 of them seen, has
\* returned the 30 new ones as the first did.
C13_Witness ==
    /\ BulkFiltered
    /\ frame.round = 2
    /\ Len(frame.articles) = 61
    /\ Len(frame.val) = 30
    /\ frame.val = frame.first

\* C14: when a credential is missing (EMAIL_USER/EMAIL_PASS or GEMINI_KEY),
\* main makes no feed fetch, no store access, no ranking call and sends no
\* email, and the process ends on the failure exit path, never by a normal
\* return.
C14_CredentialAbsenceFatal ==
    (~creds.email \/ ~creds.gemini) =>
        /\ pc \in {"start", "exit1"}
        /\ gatherStatus = "idle"
        /\ raw_items = <<>>
        /\ collection = <<>>
        /\ emailed = NoEmail
        /\ saved = NoSave

\* C15: no step of a save_processed call deletes a document of the
\* collection or changes the title, url or processed_at stored in it.
C15_SeenRecordImmutable ==
    [][\A id \in DOMAIN collection :
          /\ id \in DOMAIN collection'
          /\ collection'[id] = collection[id]]_vars

\* The rss fetch of SpecParser has returned an article for every entry.
RssConverted ==
    /\ parseOut.phase = "returned"
    /\ parseIn.doc.variant = "rss"
    /\ Len(parseOut.val) = Len(parseIn.doc.entries)

\* C16: the article built from an entry that has no link gets a link that
\* deduplication (get_id) tells apart from the link of every entry that has
\* one and from the link given to any other, different, link-less entry.
C16_LinkInvariant ==
    RssConverted =>
        \A j, k \in DOMAIN parseOut.val :
            /\ (parseIn.doc.entries[j].haslink
                   /\ ~parseIn.doc.entries[k].haslink)
               => get_id(parseOut.val[j].link) # get_id(parseOut.val[k].link)
            /\ (/\ j # k
                /\ ~parseIn.doc.entries[j].haslink
                /\ ~parseIn.doc.entries[k].haslink
                /\ parseIn.doc.entries[j] # parseIn.doc.entries[k])
               => get_id(parseOut.val[j].link) # get_id(parseOut.val[k].link)

\* The positions of the lines that begin with "## ", in document order.
HeaderPositions(lines) ==
    SelectSeq([k \in DOMAIN lines |-> k],
              LAMBDA k : lines[k].kind = "h2" /\ ~lines[k].indent)

\* The lines of the section whose header is the j-th of pos: those after it
\* up to the next header or the end of the document.
SectionBody(lines, pos, j) ==
    SubSeq(lines, pos[j] + 1,
           IF j < Len(pos) THEN pos[j + 1] - 1 ELSE Len(lines))

\* C17: a changelog fetch that succeeds on a document with n lines that
\* begin with "## " returns min(n, 5) articles, the j-th titled "Changelog"
\* with the text of the j-th header and holding in summary the body of the
\* j-th section (cut to the bounded length) and nothing else.
C17_ChangelogSplitting ==
    (/\ parseOut.phase = "returned"
     /\ parseIn.doc.variant = "changelog"
     /\ parseIn.doc.net = "ok")
    => LET lines == parseIn.doc.lines
           pos == HeaderPositions(lines)
       IN /\ Len(parseOut.val) = Min(Len(pos), 5)
          /\ \A j \in DOMAIN parseOut.val :
                /\ j <= Len(pos)
                /\ parseOut.val[j].title = <<"Changelog", lines[pos[j]].version>>
                /\ parseOut.val[j].summary.text =
                      StripBlank(SectionBody(lines, pos, j))

\* C18: every article analyze_with_gemini returns is a candidate of the
\* window with source, title, link, summary and full_text as they were, and
\* its reason is a string (the rationale of a selection or the default),
\* never None.
C18_CuratedCarriedThrough ==
    (CurateReturned /\ curOut.status = "ok") =>
        \A j \in DOMAIN curOut.val :
            /\ \E k \in 1..curOut.window :
                  [curOut.val[j] EXCEPT !.reason = "None"] = curIn.articles[k]
            /\ curOut.val[j].reason \in {"r1", "r2", "No analysis provided."}

\* C19: get_articles returns only when the future of every submitted task
\* has completed and been yielded, and main is past the gather phase only
\* when the get_articles call has returned and no task is running.
C19_JoinBeforeReturn ==
    /\ gatherStatus = "returned" =>
          \A s \in feeds : tasks[s].state = "collected"
    /\ pc \in {"filter_p", "filter_b", "curate_p", "curate_b", "email", "save"}
          => /\ gatherStatus = "returned"
             /\ \A s \in feeds : tasks[s].state # "running"

\* main filters after both get_articles calls joined, one task of the
\* platform group having raised and the blog task having returned an article.
C19_Witness ==
    /\ pc = "filter_p"
    /\ gatherStatus = "returned"
    /\ feeds = blog_feeds
    /\ \A s \in feeds : tasks[s].state = "collected"
    /\ Len(raw_blogs) = 1
    /\ Len(raw_platform) = 3

\* The sources whose future has been yielded and had returned.
Merged == {s \in feeds : tasks[s].state = "collected" /\ ~tasks[s].raised}

\* C20: raw_items changes only when the thread that called get_articles
\* takes one completed future and extends raw_items by its result, the tasks
\* themselves never writing to it; so at every moment raw_items holds the
\* articles of the returned tasks merged so far, each as often as returned.
C20_SingleWriter ==
    /\ [][raw_items' # raw_items =>
            \E s \in feeds :
                /\ tasks[s].state = "done"
                /\ tasks'[s].state = "collected"
                /\ raw_items' = raw_items \o tasks[s].items
                /\ \A o \in feeds \ {s} : tasks'[o] = tasks[o]]_vars
    /\ [](gatherStatus \in {"running", "returned"} =>
            /\ Len(raw_items) = LenOfTasks(Merged)
            /\ \A a \in Range(raw_items) :
                  Count(raw_items, a) = CountInTasks(Merged, a))

\* Two tasks have been merged, one of them having returned a link the other
\* returned too, while the third has completed and waits to be taken.
C20_Witness ==
    /\ gatherStatus = "running"
    /\ feeds = Sources
    /\ tasks["s1"].state = "collected" /\ Len(tasks["s1"].items) = 2
    /\ tasks["s2"].state = "collected" /\ Len(tasks["s2"].items) = 1
    /\ tasks["s2"].items[1].link \in LinksOf(tasks["s1"].items)
    /\ tasks["s3"].state = "done" /\ Len(tasks["s3"].items) = 1
    /\ Len(raw_items) = 3

\* The position of the first ">" of s at or after position j, or 0.
RECURSIVE NextGt(_, _)
NextGt(s, j) ==
    IF j > Len(s) THEN 0
    ELSE IF s[j] = ">" THEN j
    ELSE NextGt(s, j + 1)

\* s without its tags: every "<" up to the next ">", on one line or more.
RECURSIVE WithoutTags(_)
WithoutTags(s) ==
    IF s = <<>> THEN <<>>
    ELSE IF Head(s) = "<" /\ NextGt(s, 2) # 0
    THEN WithoutTags(SubSeq(s, NextGt(s, 2) + 1, Len(s)))
    ELSE <<Head(s)>> \o WithoutTags(Tail(s))

\* s with every entity replaced by the character it stands for.
Unescaped(s) ==
    [j \in DOMAIN s |-> IF s[j] = "&amp;" THEN "&"
                        ELSE IF s[j] = "&#62;" THEN ">"
                        ELSE s[j]]

\* C21: clean_html gives "" for None and for "", and for a str the text
\* without its tags, with its entities unescaped and its white space
\* normalized: every run of white space one " ", none at the ends.
C21_MarkupStripping ==
    (parseOut.phase = "returned") =>
        /\ parseOut.exc = "none"
        /\ (parseIn.raw.kind = "absent" \/ parseIn.raw.text = <<>>)
              => parseOut.val = <<>>
        /\ parseIn.raw.kind = "str"
              => parseOut.val =
                    Unescaped(split_join(WithoutTags(parseIn.raw.text)))

\* The positions of articles whose identity hash has no document in coll.
AbsentPositions(articles, coll) ==
    {i \in DOMAIN articles : get_id(articles[i].link) \notin DOMAIN coll}

\* The j-th smallest member of the set of positions P.
NthOf(P, j) == CHOOSE i \in P : Cardinality({k \in P : k <= i}) = j

\* The number of articles of the list with the link l.
WithLink(articles, l) ==
    Cardinality({i \in DOMAIN articles : articles[i].link = l})

\* C23: with the store available, a filter_new call that returns gives
\* exactly the input articles whose identity hash has no document in the
\* store, in input order; articles of the batch that share a link are all
\* returned or all removed.
C23_ExactSubsequence ==
    (/\ db
     /\ storeCall.op = "filter_new"
     /\ storeCall.status = "ok")
    => LET P == AbsentPositions(storeCall.arg, collection)
       IN /\ Len(storeCall.val) = Cardinality(P)
          /\ \A j \in DOMAIN storeCall.val :
                storeCall.val[j] = storeCall.arg[NthOf(P, j)]
          /\ \A l \in LinksOf(storeCall.arg) :
                WithLink(storeCall.val, l)
                    \in {0, WithLink(storeCall.arg, l)}

\* Two articles of one batch share a link no document stands for, and both
\* were returned, while the store holds other documents.
C23_Witness ==
    /\ db
    /\ collection # <<>>
    /\ storeCall.op = "filter_new"
    /\ storeCall.status = "ok"
    /\ Len(storeCall.arg) = 2
    /\ storeCall.arg[1].link = storeCall.arg[2].link
    /\ storeCall.val = storeCall.arg

\* C22: over sequential runs of main, a link that was passed to send_email
\* in a run that had the store and whose save_processed returned is not
\* passed to send_email in a later run that has the store.
C22_NoRepeatDelivery ==
    (db /\ emailed.called)
    => LinksOf(emailed.platform \o emailed.blogs) \cap delivered = {}

\* A later run with the store sends an email after an earlier run delivered
\* and saved.
C22_Witness ==
    /\ run > 1
    /\ db
    /\ delivered # {}
    /\ emailed.called
    /\ emailed.platform \o emailed.blogs # <<>>

\* C24: in one run save_processed is called only after send_email returned;
\* send_email returns to main also when the delivery failed, and
\* save_processed is then called; a run in which filter_new gives no new
\* article for either group makes no curation call, sends no email and
\* saves nothing.
C24_DeliverThenPersist ==
    /\ saved.called => (emailed.called /\ pc \in {"returned", "crashed"})
    /\ (emailed.called /\ pc \in {"returned", "crashed"}) => saved.called
    /\ (emailed.called /\ ~saved.called) => pc = "save"
    /\ (new_platform = <<>> /\ new_blogs = <<>>)
          => (curated = 0 /\ ~emailed.called /\ ~saved.called)
    /\ (pc = "returned" /\ curated = 0) => (~emailed.called /\ ~saved.called)

\* The delivery failed inside send_email and save_processed was called and
\* returned.
C24_Witness ==
    /\ pc = "returned"
    /\ emailed.called
    /\ emailed.outcome = "failed"
    /\ saved.called
    /\ saved.status = "ok"

=============================================================================
